---- MODULE Spec2Model ----
(***************************************************************************)
(* Model of muza (src/muza/src/main.rs): the waveform renderer, the Ruler  *)
(* tuning model, the WaveFormerBuilder and the thread-per-octave pipeline   *)
(* of main.                                                                 *)
(*                                                                          *)
(* Number representations                                                   *)
(*  - an i64 is the record [hi, lo] standing for hi * 2^32 + lo with lo the  *)
(*    low 32 bits read as a signed i32 (-2^31 <= lo < 2^31), so `as i32` is  *)
(*    the projection on lo;                                                 *)
(*  - an f64 is the record [kind, num, den, r2, exp]: kind "fin" stands for  *)
(*    (num / den) * sqrt(2)^r2 * 2^exp with num, den odd and coprime,        *)
(*    kind "inf" and "zero" for an overflowed / underflowed result and       *)
(*    "nan" for inf * 0. Scaling by a power of two is exact in f64, which is *)
(*    what the exponent field records; the mantissa is kept symbolically.   *)
(***************************************************************************)
EXTENDS Integers, Sequences, FiniteSets, TLC

(***************************************************************************)
(* Program constants                                                        *)
(***************************************************************************)
FRAME_RATE == 48000
CHANNELS == 2
octaves == 8
offset == 36
lengths == <<1, 2, 4, 8>>
RationsLen == 12
NotesPerJob == 12

(***************************************************************************)
(* Integer helpers                                                          *)
(***************************************************************************)
Min(a, b) == IF a < b THEN a ELSE b

Abs(a) == IF a < 0 THEN -a ELSE a

RECURSIVE Gcd(_, _)
Gcd(a, b) == IF b = 0 THEN a ELSE Gcd(b, a % b)

RECURSIVE Pow2Int(_)
Pow2Int(e) == IF e = 0 THEN 1 ELSE 2 * Pow2Int(e - 1)

RECURSIVE TwoAdic(_)
TwoAdic(n) == IF n = 0 \/ n % 2 = 1 THEN 0 ELSE 1 + TwoAdic(n \div 2)

RECURSIVE FloorLog2(_)
FloorLog2(n) == IF n < 2 THEN 0 ELSE 1 + FloorLog2(n \div 2)

\* Rust's integer division: the quotient is truncated toward zero.
TruncDiv(a, b) == IF a >= 0 THEN a \div b ELSE -((-a) \div b)

(***************************************************************************)
(* i64 and i32                                                              *)
(***************************************************************************)
I32Max == 2147483647
I32Min == -I32Max - 1
\* 2^32 = 12 * TwoPow32Div12 + TwoPow32Mod12
TwoPow32Div12 == 357913941
TwoPow32Mod12 == 4

I64(n) == [hi |-> 0, lo |-> n]

\* `note as i32`: the low 32 bits, reinterpreted as signed.
AsI32(n) == n.lo

\* i64::rem_euclid(n, 12)
RemEuclid12(n) == (((n.hi % 3) * TwoPow32Mod12) + (n.lo % 12)) % 12

\* n + k for a small k >= 0, wrapping the low word into the high word.
AddI64(n, k) ==
    IF n.lo > I32Max - k
    THEN [hi |-> n.hi + 1, lo |-> (((n.lo - I32Max) - 1) + k) + I32Min]
    ELSE [hi |-> n.hi, lo |-> n.lo + k]

\* floor(n / 12) of the whole 64-bit value
FloorDiv12(n) ==
    (TwoPow32Div12 * n.hi) + (n.lo \div 12) + (((n.lo % 12) + (TwoPow32Mod12 * n.hi)) \div 12)

(***************************************************************************)
(* f64                                                                      *)
(***************************************************************************)
F64MaxExp == 1023
F64MinExp == -1074

Inf == [kind |-> "inf", num |-> 1, den |-> 1, r2 |-> 0, exp |-> 0]
Zero == [kind |-> "zero", num |-> 0, den |-> 1, r2 |-> 0, exp |-> 0]
NaN == [kind |-> "nan", num |-> 0, den |-> 1, r2 |-> 0, exp |-> 0]

\* The binary order of magnitude of (num / den) * 2^exp.
Magnitude(num, den, exp) == exp + FloorLog2(Abs(num)) - FloorLog2(den)

Norm(num, den, r2, exp) ==
    IF num = 0 THEN Zero
    ELSE LET g == Gcd(Abs(num), den)
             n == num \div g
             d == den \div g
             tn == TwoAdic(Abs(n))
             td == TwoAdic(d)
             n1 == n \div Pow2Int(tn)
             d1 == d \div Pow2Int(td)
             e == exp + tn - td + (r2 \div 2)
         IN IF Magnitude(n1, d1, e) > F64MaxExp THEN Inf
            ELSE IF Magnitude(n1, d1, e) < F64MinExp THEN Zero
            ELSE [kind |-> "fin", num |-> n1, den |-> d1, r2 |-> r2 % 2, exp |-> e]

Rat(n, d) == Norm(n, d, 0, 0)

F64Mul(a, b) ==
    IF a.kind = "nan" \/ b.kind = "nan" THEN NaN
    ELSE IF a.kind = "inf" \/ b.kind = "inf"
         THEN IF a.kind = "zero" \/ b.kind = "zero" THEN NaN ELSE Inf
    ELSE IF a.kind = "zero" \/ b.kind = "zero" THEN Zero
    ELSE Norm(a.num * b.num, a.den * b.den, a.r2 + b.r2, a.exp + b.exp)

F64Div(a, b) ==
    IF a.kind # "fin" \/ b.kind # "fin" \/ b.r2 # 0 THEN NaN
    ELSE Norm(a.num * b.den * (IF b.num < 0 THEN -1 ELSE 1), a.den * Abs(b.num),
              a.r2, a.exp - b.exp)

\* 2.0_f64.powi(k)
Powi2(k) ==
    IF k > F64MaxExp THEN Inf
    ELSE IF k < F64MinExp THEN Zero
    ELSE [kind |-> "fin", num |-> 1, den |-> 1, r2 |-> 0, exp |-> k]

\* 2.0_f64.sqrt()
Sqrt2 == [kind |-> "fin", num |-> 1, den |-> 1, r2 |-> 1, exp |-> 0]

\* `x as usize` of a non-negative rational f64: the integer part; negative
\* values and NaN saturate to 0.
F64AsUsize(x) ==
    IF x.kind # "fin" \/ x.num < 0 THEN 0
    ELSE IF x.exp >= 0 THEN (x.num * Pow2Int(x.exp)) \div x.den
    ELSE x.num \div (x.den * Pow2Int(-x.exp))

(***************************************************************************)
(* Time / frame conversion                                                  *)
(***************************************************************************)
\* A conversion at the rate of the dead loop of render (44100).
duration_to_frame_44100(duration) == F64AsUsize(F64Mul(duration, Rat(44100, 1)))

duration_to_frame(duration) == F64AsUsize(F64Mul(duration, Rat(FRAME_RATE, 1)))

frame_to_duration(frame) == F64Div(Rat(frame, 1), Rat(FRAME_RATE, 1))

(***************************************************************************)
(* Arithmetic on the f64 values that are rational numbers                   *)
(***************************************************************************)
Frac(x) ==
    IF x.exp >= 0 THEN [n |-> x.num * Pow2Int(x.exp), d |-> x.den]
    ELSE [n |-> x.num, d |-> x.den * Pow2Int(-x.exp)]

F64Lt(a, b) == Frac(a).n * Frac(b).d < Frac(b).n * Frac(a).d

F64Sub(a, b) == Rat((Frac(a).n * Frac(b).d) - (Frac(b).n * Frac(a).d), Frac(a).d * Frac(b).d)

\* x % 1.0: the remainder has the sign of x.
F64Rem1(x) ==
    IF x.kind # "fin" THEN x
    ELSE IF Frac(x).n >= 0 THEN Rat(Frac(x).n % Frac(x).d, Frac(x).d)
    ELSE Rat(-((-Frac(x).n) % Frac(x).d), Frac(x).d)

\* `x as f32`: exact when x has at most 24 significant bits, rounded otherwise.
F32MantissaBits == 24
AsF32(x) ==
    IF x.kind = "fin" /\ x.den = 1 /\ x.r2 = 0 /\ Abs(x.num) < Pow2Int(F32MantissaBits)
    THEN x
    ELSE IF x.kind \in {"zero", "inf", "nan"} THEN x
    ELSE [kind |-> "f32", num |-> x.num, den |-> x.den, r2 |-> x.r2, exp |-> x.exp,
          of |-> x.kind]

(***************************************************************************)
(* wave_forms                                                               *)
(***************************************************************************)
sqr(x) == IF F64Lt(x, Rat(1, 2)) THEN Rat(1, 1) ELSE Rat(-1, 1)

saw(x) == F64Sub(Rat(1, 1), F64Mul(Rat(2, 1), x))

tri(x) ==
    IF F64Lt(x, Rat(1, 4)) THEN F64Mul(Rat(4, 1), x)
    ELSE IF F64Lt(x, Rat(3, 4)) THEN F64Sub(Rat(2, 1), F64Mul(Rat(4, 1), x))
    ELSE F64Sub(F64Mul(Rat(4, 1), x), Rat(4, 1))

\* (2.0 * PI * x).sin(): 0 at x = 0, kept as the symbol sin(2 pi x) elsewhere.
sin(x) ==
    IF x.kind = "zero" THEN Zero
    ELSE [kind |-> "sin", num |-> x.num, den |-> x.den, r2 |-> x.r2, exp |-> x.exp]

ApplyWaveForm(w, x) ==
    CASE w = "sqr" -> sqr(x)
      [] w = "saw" -> saw(x)
      [] w = "tri" -> tri(x)
      [] OTHER -> sin(x)

\* v * 0.5
Half(v) ==
    IF v.kind = "sin" THEN [v EXCEPT !.exp = @ - 1] ELSE F64Mul(v, Rat(1, 2))

\* let seconds = frame_to_duration(frame);
\* let part = seconds * self.frequency % 1.0;
\* let sample = (self.waveform)(part) * 0.5;  .. sample as f32
Sample(self, frame) ==
    LET seconds == frame_to_duration(frame)
        part == F64Rem1(F64Mul(seconds, self.frequency))
    IN AsF32(Half(ApplyWaveForm(self.waveform, part)))

(***************************************************************************)
(* WaveFormerBuilder                                                        *)
(***************************************************************************)
None == [some |-> FALSE, val |-> Zero]
Some(v) == [some |-> TRUE, val |-> v]
UnwrapOr(opt, default) == IF opt.some THEN opt.val ELSE default

WaveForms == {"sqr", "saw", "tri", "sin"}
NoneWave == [some |-> FALSE, val |-> "sin"]

BuilderNew == [waveform |-> NoneWave, duration |-> None, frequency |-> None]

\* A build that reads each field from its own override.
BuildOwnField(self) ==
    [waveform |-> UnwrapOr(self.waveform, "sin"),
     duration |-> UnwrapOr(self.duration, Rat(1, 1)),
     frequency |-> UnwrapOr(self.frequency, Rat(360, 1))]

Build(self) ==
    [waveform |-> UnwrapOr(self.waveform, "sin"),
     duration |-> UnwrapOr(self.duration, Rat(1, 1)),
     frequency |-> UnwrapOr(self.duration, Rat(360, 1))]

(***************************************************************************)
(* Ruler                                                                    *)
(***************************************************************************)
Rations ==
    <<Rat(1, 1), Rat(256, 243), Rat(9, 8), Rat(32, 27), Rat(81, 64), Rat(4, 3),
      Sqrt2, Rat(3, 2), Rat(128, 81), Rat(27, 16), Rat(16, 9), Rat(256, 128)>>

RulerDefault == [frequency |-> Rat(440, 1), bpm |-> Rat(120, 1), rations |-> Rations]

Ration(self, note) == self.rations[RemEuclid12(note) + 1]

PowerExp(note) ==
    LET n == AsI32(note)
    IN IF n < 0 THEN TruncDiv(n + 1, RationsLen) - 1 ELSE TruncDiv(n, RationsLen)

Power(self, note) == Powi2(PowerExp(note))

Frequency(self, note) == F64Mul(F64Mul(self.frequency, Ration(self, note)), Power(self, note))

Duration(self, ration) == F64Mul(F64Div(self.bpm, Rat(60, 1)), ration)

(***************************************************************************)
(* Output paths. A path is the sequence of its components; format!'s {}     *)
(* of an integer is its decimal representation.                             *)
(***************************************************************************)
Digits == <<"0", "1", "2", "3", "4", "5", "6", "7", "8", "9">>

RECURSIVE DecNat(_)
DecNat(n) == IF n < 10 THEN Digits[n + 1] ELSE DecNat(n \div 10) \o Digits[(n % 10) + 1]

Dec(n) == IF n < 0 THEN "-" \o DecNat(-n) ELSE DecNat(n)

RootDir == <<"out">>

\* An octave directory that does not depend on the job.
OctaveDirShared(job) == <<"out", "o[0]">>

OctaveDir(job) == <<"out", "o[" \o Dec(job) \o "]">>

NoteDir(job, abs) == <<"out", "o[" \o Dec(job) \o "]", "n[" \o Dec(abs) \o "]">>

\* A file name that leaves the octave out.
FilePathNoJob(job, abs, length) ==
    <<"out", "o[" \o Dec(abs) \o "]", "n[" \o Dec(abs) \o "]",
      "o[" \o Dec(abs) \o "] n[" \o Dec(abs) \o "] l[" \o Dec(length) \o "].wav">>

FilePath(job, abs, length) ==
    <<"out", "o[" \o Dec(job) \o "]", "n[" \o Dec(abs) \o "]",
      "o[" \o Dec(job) \o "] n[" \o Dec(abs) \o "] l[" \o Dec(length) \o "].wav">>

Parent(path) == SubSeq(path, 1, Len(path) - 1)

(***************************************************************************)
(* Bounds of the checked instances                                          *)
(***************************************************************************)
MaxNote == 62
EdgeSpan == 13
MaxVal == 2
\* render is called with the durations n / DurDen, n in 0..MaxDurNum, and 1.0
MaxDurNum == 5
DurDen == 7000
\* The pipeline is run on the first MaxJobs octaves, the first MaxDegrees notes
\* of each octave and the first MaxLengths entries of lengths; a file's frames
\* are written in Chunks steps.
MaxJobs == 2
MaxDegrees == 2
MaxLengths == 1
Chunks == 1

NumJobs == Min(octaves, MaxJobs)
NumDegrees == Min(NotesPerJob, MaxDegrees)
NumLengths == Min(Len(lengths), MaxLengths)
Jobs == 0..(NumJobs - 1)

(***************************************************************************)
(* State                                                                    *)
(***************************************************************************)
VARIABLES
    \* Ruler calls
    rpc, rnote, rpower, rfreq, rfreq12,
    \* WaveFormerBuilder
    bpc, builder, built,
    \* path function
    ppc, pcell1, pcell2, ppath1, ppath2,
    \* main: its position and its loop index (the job to spawn or to join)
    mainpc, mi,
    \* the workers: position, loop indices, the open writer's progress, the
    \* WaveFormer and the log of the calls the worker made
    wpc, wdeg, wlen, wframe, wcount, waveformer, wlog,
    \* the filesystem under the working directory
    dirs, files,
    \* one call of render: position, the WaveFormer, the loop variables, the
    \* sample of the frame, the number of write_sample calls and the last two
    spc, swf, sframe, schan, scount, ssample, ssamples, slast, sprev

rulerVars == <<rpc, rnote, rpower, rfreq, rfreq12>>
builderVars == <<bpc, builder, built>>
pathVars == <<ppc, pcell1, pcell2, ppath1, ppath2>>
pipeVars == <<mainpc, mi, wpc, wdeg, wlen, wframe, wcount, waveformer, wlog, dirs, files>>
renderVars == <<spc, swf, sframe, schan, scount, ssample, ssamples, slast, sprev>>
vars == <<rulerVars, builderVars, pathVars, pipeVars, renderVars>>

RulerIdle ==
    /\ rpc = "idle" /\ rnote = I64(0) /\ rpower = Zero /\ rfreq = Zero /\ rfreq12 = Zero
BuilderIdle ==
    /\ bpc = "idle" /\ builder = BuilderNew /\ built = Build(BuilderNew)
PathIdle ==
    /\ ppc = "idle" /\ pcell1 = <<0, 0, 1>> /\ pcell2 = <<0, 0, 1>>
    /\ ppath1 = <<>> /\ ppath2 = <<>>
NoFiles == [p \in {} |-> [frames |-> 0, samples |-> 0, closed |-> TRUE]]
WorkersUnspawned ==
    /\ wpc = [j \in Jobs |-> "unspawned"]
    /\ wdeg = [j \in Jobs |-> 0] /\ wlen = [j \in Jobs |-> 1]
    /\ wframe = [j \in Jobs |-> 0] /\ wcount = [j \in Jobs |-> 0]
    /\ waveformer = [j \in Jobs |-> Build(BuilderNew)]
    /\ wlog = [j \in Jobs |-> <<>>]
NoWrite == [frame |-> -1, channel |-> -1, sample |-> Zero]
RenderIdle ==
    /\ spc = "idle" /\ swf = Build(BuilderNew) /\ sframe = 0 /\ schan = 0 /\ scount = 0
    /\ ssample = Zero /\ ssamples = 0 /\ slast = NoWrite /\ sprev = NoWrite
PipeIdle ==
    /\ mainpc = "idle" /\ mi = 0 /\ WorkersUnspawned
    /\ dirs = {} /\ files = NoFiles

(***************************************************************************)
(* Ruler calls: power(note), frequency(note) and frequency(note + 12) of    *)
(* the default ruler, for notes around zero, around the ends of the i32     *)
(* range and beyond it.                                                     *)
(***************************************************************************)
RulerNotes ==
    {[hi |-> h, lo |-> l] : h \in {-1, 0, 1}, l \in (-MaxNote)..MaxNote}
    \cup {[hi |-> 0, lo |-> I32Max - j] : j \in 0..EdgeSpan}
    \cup {[hi |-> 0, lo |-> I32Min + j] : j \in 0..EdgeSpan}

RulerInit ==
    /\ rpc = "call" /\ rnote \in RulerNotes
    /\ rpower = Zero /\ rfreq = Zero /\ rfreq12 = Zero
    /\ BuilderIdle /\ PathIdle /\ PipeIdle /\ RenderIdle

RulerCall ==
    /\ rpc = "call"
    /\ rpower' = Power(RulerDefault, rnote)
    /\ rfreq' = Frequency(RulerDefault, rnote)
    /\ rfreq12' = Frequency(RulerDefault, AddI64(rnote, 12))
    /\ rpc' = "done"
    /\ UNCHANGED <<rnote, builderVars, pathVars, pipeVars, renderVars>>

RulerNext == RulerCall

SpecRuler == RulerInit /\ [][RulerNext]_vars

(***************************************************************************)
(* WaveFormerBuilder: any sequence of setter calls, then build().           *)
(***************************************************************************)
BuilderVals == {Rat(n, 1) : n \in 0..MaxVal} \cup {Rat(1, 2), Rat(360, 1), Rat(440, 1)}

BuilderInit ==
    /\ bpc = "building" /\ builder = BuilderNew /\ built = Build(BuilderNew)
    /\ RulerIdle /\ PathIdle /\ PipeIdle /\ RenderIdle

SetWaveform(w) ==
    /\ bpc = "building"
    /\ builder' = [builder EXCEPT !.waveform = [some |-> TRUE, val |-> w]]
    /\ UNCHANGED <<bpc, built, rulerVars, pathVars, pipeVars, renderVars>>

SetDuration(d) ==
    /\ bpc = "building"
    /\ builder' = [builder EXCEPT !.duration = Some(d)]
    /\ UNCHANGED <<bpc, built, rulerVars, pathVars, pipeVars, renderVars>>

SetFrequency(f) ==
    /\ bpc = "building"
    /\ builder' = [builder EXCEPT !.frequency = Some(f)]
    /\ UNCHANGED <<bpc, built, rulerVars, pathVars, pipeVars, renderVars>>

DoBuild ==
    /\ bpc = "building"
    /\ built' = Build(builder)
    /\ bpc' = "built"
    /\ UNCHANGED <<builder, rulerVars, pathVars, pipeVars, renderVars>>

BuilderNext ==
    \/ \E w \in WaveForms : SetWaveform(w)
    \/ \E d \in BuilderVals : SetDuration(d)
    \/ \E f \in BuilderVals : SetFrequency(f)
    \/ DoBuild

SpecBuilder == BuilderInit /\ [][BuilderNext]_vars

(***************************************************************************)
(* The path function on the whole grid of main: two cells are drawn and     *)
(* their file paths formatted.                                              *)
(***************************************************************************)
LengthSet == {lengths[i] : i \in 1..Len(lengths)}
GridCells == (0..(octaves - 1)) \X (0..(NotesPerJob - 1)) \X LengthSet

PathInit ==
    /\ ppc = "format" /\ pcell1 \in GridCells /\ pcell2 \in GridCells
    /\ ppath1 = <<>> /\ ppath2 = <<>>
    /\ RulerIdle /\ BuilderIdle /\ PipeIdle /\ RenderIdle

FormatPaths ==
    /\ ppc = "format"
    /\ ppath1' = FilePath(pcell1[1], pcell1[2], pcell1[3])
    /\ ppath2' = FilePath(pcell2[1], pcell2[2], pcell2[3])
    /\ ppc' = "done"
    /\ UNCHANGED <<pcell1, pcell2, rulerVars, builderVars, pipeVars, renderVars>>

PathNext == FormatPaths

SpecPath == PathInit /\ [][PathNext]_vars

(***************************************************************************)
(* The filesystem as the program sees it. An operation can fail for a       *)
(* reason outside the program (ext), or for the state of the tree.          *)
(***************************************************************************)
CreateDirResult(path, ext) ==
    IF ext THEN "io"
    ELSE IF path \in dirs \/ path \in DOMAIN files THEN "exists"
    ELSE IF Len(path) > 1 /\ Parent(path) \notin dirs THEN "noparent"
    ELSE "ok"

CreateFileResult(path, ext) ==
    IF ext THEN "io"
    ELSE IF path \in dirs THEN "isdir"
    ELSE IF Parent(path) \notin dirs THEN "noparent"
    ELSE "ok"

Under(path, root) == Len(path) >= Len(root) /\ SubSeq(path, 1, Len(root)) = root

PutFile(path, rec) ==
    [q \in DOMAIN files \cup {path} |-> IF q = path THEN rec ELSE files[q]]

\* What "out" can hold when the program starts: nothing, an empty directory,
\* or the tree of an earlier run.
StaleFile == [frames |-> 1, samples |-> CHANNELS, closed |-> TRUE]
FsInits ==
    {[dirs |-> {}, files |-> NoFiles],
     [dirs |-> {RootDir}, files |-> NoFiles],
     [dirs |-> {RootDir, OctaveDir(0), NoteDir(0, 0)},
      files |-> [p \in {FilePath(0, 0, lengths[1])} |-> StaleFile]]}

(***************************************************************************)
(* main                                                                     *)
(***************************************************************************)
Alive == mainpc \in {"remove", "create", "spawn", "join"}

PipeInit ==
    /\ mainpc = "remove" /\ mi = 0 /\ WorkersUnspawned
    /\ \E f \in FsInits : dirs = f.dirs /\ files = f.files
    /\ RulerIdle /\ BuilderIdle /\ PathIdle /\ RenderIdle

\* fs::remove_dir_all("out")?
MainRemove(ext) ==
    /\ mainpc = "remove"
    /\ IF RootDir \in dirs /\ ~ext
       THEN /\ dirs' = {d \in dirs : ~Under(d, RootDir)}
            /\ files' = [q \in {f \in DOMAIN files : ~Under(f, RootDir)} |-> files[q]]
            /\ mainpc' = "create"
       ELSE /\ mainpc' = "err"
            /\ UNCHANGED <<dirs, files>>
    /\ UNCHANGED <<mi, wpc, wdeg, wlen, wframe, wcount, waveformer, wlog>>
    /\ UNCHANGED <<rulerVars, builderVars, pathVars, renderVars>>

\* fs::create_dir("out")?
MainCreate(ext) ==
    /\ mainpc = "create"
    /\ IF CreateDirResult(RootDir, ext) = "ok"
       THEN /\ dirs' = dirs \cup {RootDir}
            /\ mainpc' = "spawn"
       ELSE /\ mainpc' = "err"
            /\ UNCHANGED dirs
    /\ UNCHANGED <<mi, wpc, wdeg, wlen, wframe, wcount, waveformer, wlog, files>>
    /\ UNCHANGED <<rulerVars, builderVars, pathVars, renderVars>>

\* handles.push(thread::spawn(..)) for job = mi; after the last job the join
\* loop starts at the first handle.
MainSpawn ==
    /\ mainpc = "spawn"
    /\ wpc' = [wpc EXCEPT ![mi] = "mkoctave"]
    /\ IF mi + 1 < NumJobs
       THEN mi' = mi + 1 /\ UNCHANGED mainpc
       ELSE mi' = 0 /\ mainpc' = "join"
    /\ UNCHANGED <<wdeg, wlen, wframe, wcount, waveformer, wlog, dirs, files>>
    /\ UNCHANGED <<rulerVars, builderVars, pathVars, renderVars>>

\* A join that returns without waiting for the thread.
JoinReadyNoWait(job) == TRUE

\* handle.join() returns once the thread has finished, normally or by panic.
JoinReady(job) == wpc[job] \in {"done", "panicked"}

\* An unwrap that drops the Err of a panicked thread.
JoinUnwrapIgnored(state) == "continue"

\* .unwrap() of the join result: Err (the thread panicked) panics main.
JoinUnwrap(state) == IF state = "panicked" THEN "panic" ELSE "continue"

MainJoin ==
    /\ mainpc = "join"
    /\ JoinReady(mi)
    /\ IF JoinUnwrap(wpc[mi]) = "panic"
       THEN mainpc' = "panic" /\ UNCHANGED mi
       ELSE IF mi + 1 < NumJobs
            THEN mi' = mi + 1 /\ UNCHANGED mainpc
            ELSE mainpc' = "ok" /\ UNCHANGED mi
    /\ UNCHANGED <<wpc, wdeg, wlen, wframe, wcount, waveformer, wlog, dirs, files>>
    /\ UNCHANGED <<rulerVars, builderVars, pathVars, renderVars>>

(***************************************************************************)
(* The worker of one octave                                                 *)
(***************************************************************************)
\* An unwrap that lets the thread go on after an Err.
UnwrapIgnored(ok, next) == next

\* .unwrap() of a create_dir result
Unwrap(ok, next) == IF ok THEN next ELSE "panicked"

Start(job) == (job * 12) - offset
Note(job) == Start(job) + wdeg[job]
AbsNote(job) == Note(job) - Start(job)
CurLength(job) == lengths[wlen[job]]
CurPath(job) == FilePath(job, AbsNote(job), CurLength(job))

\* A cell update that leaves the duration of the previous cell in place.
CellWaveFormerStaleDuration(wf, ruler, note, length) ==
    [wf EXCEPT !.frequency = Frequency(ruler, I64(note))]

CellWaveFormer(wf, ruler, note, length) ==
    [wf EXCEPT !.frequency = Frequency(ruler, I64(note)),
               !.duration = Duration(ruler, Rat(length, 1))]

ChunkSize(count) == (count + Chunks - 1) \div Chunks

LogEvent(job, e) == [wlog EXCEPT ![job] = Append(@, e)]

\* fs::create_dir(format!("out/o[{}]", job)).unwrap();
\* let mut waveformer = WaveFormerBuilder::new().build();
MkOctave(job, ext) ==
    /\ Alive /\ wpc[job] = "mkoctave"
    /\ \E path \in {OctaveDir(job)} :
       LET r == CreateDirResult(path, ext)
       IN /\ dirs' = IF r = "ok" THEN dirs \cup {path} ELSE dirs
          /\ wlog' = LogEvent(job, [op |-> "create_dir", path |-> path, res |-> r])
          /\ wpc' = [wpc EXCEPT ![job] = Unwrap(r = "ok", "mknote")]
    /\ waveformer' = [waveformer EXCEPT ![job] = Build(BuilderNew)]
    /\ wdeg' = [wdeg EXCEPT ![job] = 0]
    /\ UNCHANGED <<mainpc, mi, wlen, wframe, wcount, files>>
    /\ UNCHANGED <<rulerVars, builderVars, pathVars, renderVars>>

\* fs::create_dir(format!("out/o[{}]/n[{}]", job, abs)).unwrap();
MkNote(job, ext) ==
    /\ Alive /\ wpc[job] = "mknote"
    /\ \E path \in {NoteDir(job, AbsNote(job))} :
       LET r == CreateDirResult(path, ext)
       IN /\ dirs' = IF r = "ok" THEN dirs \cup {path} ELSE dirs
          /\ wlog' = LogEvent(job, [op |-> "create_dir", path |-> path, res |-> r])
          /\ wpc' = [wpc EXCEPT ![job] = Unwrap(r = "ok", "render")]
    /\ wlen' = [wlen EXCEPT ![job] = 1]
    /\ UNCHANGED <<mainpc, mi, wdeg, wframe, wcount, waveformer, files>>
    /\ UNCHANGED <<rulerVars, builderVars, pathVars, renderVars>>

\* waveformer.frequency = ..; waveformer.duration = ..; waveformer.render(path):
\* hound::WavWriter::create(path, spec).unwrap();
\* let frames_count = duration_to_frame(self.duration);
Render(job, ext) ==
    /\ Alive /\ wpc[job] = "render"
    /\ \E wf \in {CellWaveFormer(waveformer[job], RulerDefault, Note(job), CurLength(job))},
          path \in {CurPath(job)} :
       LET r == CreateFileResult(path, ext)
       IN /\ waveformer' = [waveformer EXCEPT ![job] = wf]
          /\ wlog' = LogEvent(job, [op |-> "render", path |-> path, res |-> r,
                                    frequency |-> wf.frequency, duration |-> wf.duration])
          /\ IF r = "ok"
             THEN /\ files' = PutFile(path, [frames |-> 0, samples |-> 0, closed |-> FALSE])
                  /\ \E count \in {duration_to_frame(wf.duration)} :
                         /\ wcount' = [wcount EXCEPT ![job] = count]
                         /\ wpc' = [wpc EXCEPT ![job] = IF count = 0 THEN "close" ELSE "write"]
                  /\ wframe' = [wframe EXCEPT ![job] = 0]
             ELSE /\ wpc' = [wpc EXCEPT ![job] = "panicked"]
                  /\ UNCHANGED <<files, wcount, wframe>>
    /\ UNCHANGED <<mainpc, mi, wdeg, wlen, dirs>>
    /\ UNCHANGED <<rulerVars, builderVars, pathVars, renderVars>>

\* The next ChunkSize frames of the loop `for frame in 0..frames_count`, each
\* frame CHANNELS calls of writer.write_sample(..).unwrap(). A failed write
\* panics, and the unwinding drops (closes) the writer.
RenderWrite(job, ext) ==
    /\ Alive /\ wpc[job] = "write"
    /\ \E path \in {CurPath(job)} :
       LET n == Min(ChunkSize(wcount[job]), wcount[job] - wframe[job])
       IN IF ext
          THEN /\ files' = PutFile(path, [files[path] EXCEPT !.closed = TRUE])
               /\ wpc' = [wpc EXCEPT ![job] = "panicked"]
               /\ wlog' = LogEvent(job, [op |-> "write", path |-> path, res |-> "io"])
               /\ UNCHANGED wframe
          ELSE /\ files' = PutFile(path, [files[path] EXCEPT
                                !.frames = @ + n, !.samples = @ + (n * CHANNELS)])
               /\ wframe' = [wframe EXCEPT ![job] = @ + n]
               /\ wlog' = IF wframe[job] = 0
                          THEN LogEvent(job, [op |-> "write", path |-> path, res |-> "ok"])
                          ELSE wlog
               /\ wpc' = [wpc EXCEPT ![job] =
                              IF wframe[job] + n = wcount[job] THEN "close" ELSE "write"]
    /\ UNCHANGED <<mainpc, mi, wdeg, wlen, wcount, waveformer, dirs>>
    /\ UNCHANGED <<rulerVars, builderVars, pathVars, renderVars>>

\* render returns: the writer is dropped, which finalizes the file; then the
\* next length, the next note, or the end of the thread.
RenderClose(job) ==
    /\ Alive /\ wpc[job] = "close"
    /\ \E path \in {CurPath(job)} :
           files' = PutFile(path, [files[path] EXCEPT !.closed = TRUE])
    /\ IF wlen[job] < NumLengths
       THEN /\ wlen' = [wlen EXCEPT ![job] = @ + 1]
            /\ wpc' = [wpc EXCEPT ![job] = "render"]
            /\ UNCHANGED wdeg
       ELSE IF wdeg[job] + 1 < NumDegrees
            THEN /\ wdeg' = [wdeg EXCEPT ![job] = @ + 1]
                 /\ wpc' = [wpc EXCEPT ![job] = "mknote"]
                 /\ UNCHANGED wlen
            ELSE /\ wpc' = [wpc EXCEPT ![job] = "done"]
                 /\ UNCHANGED <<wdeg, wlen>>
    /\ UNCHANGED <<mainpc, mi, wframe, wcount, waveformer, wlog, dirs>>
    /\ UNCHANGED <<rulerVars, builderVars, pathVars, renderVars>>

Worker(job) ==
    \/ \E ext \in BOOLEAN : MkOctave(job, ext)
    \/ \E ext \in BOOLEAN : MkNote(job, ext)
    \/ \E ext \in BOOLEAN : Render(job, ext)
    \/ \E ext \in BOOLEAN : RenderWrite(job, ext)
    \/ RenderClose(job)

PipeNext ==
    \/ \E ext \in BOOLEAN : MainRemove(ext)
    \/ \E ext \in BOOLEAN : MainCreate(ext)
    \/ MainSpawn
    \/ MainJoin
    \/ \E job \in Jobs : Worker(job)

SpecPipe == PipeInit /\ [][PipeNext]_vars

(***************************************************************************)
(* One call of WaveFormer::render, sample by sample                         *)
(***************************************************************************)
RenderInputs ==
    {[waveform |-> w, duration |-> Rat(n, DurDen), frequency |-> Rat(f, 1)] :
        w \in WaveForms, n \in 0..MaxDurNum, f \in {360, 440}}
    \cup {[waveform |-> "sin", duration |-> Rat(1, 1), frequency |-> Rat(440, 1)]}

RenderInit ==
    /\ spc = "create" /\ swf \in RenderInputs
    /\ sframe = 0 /\ schan = 0 /\ scount = 0
    /\ ssample = Zero /\ ssamples = 0 /\ slast = NoWrite /\ sprev = NoWrite
    /\ RulerIdle /\ BuilderIdle /\ PathIdle /\ PipeIdle

\* let mut writer = hound::WavWriter::create(path, spec).unwrap();
\* let frames_count = duration_to_frame(self.duration);
RCreate(ext) ==
    /\ spc = "create"
    /\ IF ext
       THEN spc' = "panicked" /\ UNCHANGED scount
       ELSE /\ scount' = duration_to_frame(swf.duration)
            /\ spc' = IF scount' = 0 THEN "done" ELSE "frame"
    /\ UNCHANGED <<swf, sframe, schan, ssample, ssamples, slast, sprev>>
    /\ UNCHANGED <<rulerVars, builderVars, pathVars, pipeVars>>

\* The head of the frame loop: the sample of the frame is computed once.
RFrame ==
    /\ spc = "frame"
    /\ ssample' = Sample(swf, sframe)
    /\ schan' = 0
    /\ spc' = "channel"
    /\ UNCHANGED <<swf, sframe, scount, ssamples, slast, sprev>>
    /\ UNCHANGED <<rulerVars, builderVars, pathVars, pipeVars>>

\* writer.write_sample(sample as f32).unwrap(), then the next channel, the
\* next frame or the end of render.
RWrite(ext) ==
    /\ spc = "channel"
    /\ IF ext
       THEN /\ spc' = "panicked"
            /\ UNCHANGED <<sframe, schan, ssamples, slast, sprev>>
       ELSE /\ ssamples' = ssamples + 1
            /\ slast' = [frame |-> sframe, channel |-> schan, sample |-> ssample]
            /\ sprev' = slast
            /\ IF schan + 1 < CHANNELS
               THEN schan' = schan + 1 /\ UNCHANGED <<sframe, spc>>
               ELSE /\ schan' = 0
                    /\ sframe' = sframe + 1
                    /\ spc' = IF sframe + 1 < scount THEN "frame" ELSE "done"
    /\ UNCHANGED <<swf, scount, ssample>>
    /\ UNCHANGED <<rulerVars, builderVars, pathVars, pipeVars>>

RenderNext ==
    \/ \E ext \in BOOLEAN : RCreate(ext)
    \/ RFrame
    \/ \E ext \in BOOLEAN : RWrite(ext)

SpecRender == RenderInit /\ [][RenderNext]_vars

(***************************************************************************)
(* Properties                                                               *)
(***************************************************************************)

\* C4: for every i64 note, power(note) = 2^floor(note / 12), the division
\* rounding toward negative infinity over the whole 64-bit value.
C4_PowerIsFloorOctave == rpc = "done" => rpower = Powi2(FloorDiv12(rnote))

\* C5: for every integer note, frequency(note + 12) = frequency(note) * 2.
C5_OctaveDoubling == rpc = "done" => rfreq12 = F64Mul(rfreq, Rat(2, 1))

\* C7: build() takes waveform and duration from their overrides or sin / 1.0,
\* and frequency from the duration override or 360.0, whatever the frequency
\* setter was given.
C7_BuildDefaults ==
    bpc = "built" =>
        /\ built.waveform = (IF builder.waveform.some THEN builder.waveform.val ELSE "sin")
        /\ built.duration = (IF builder.duration.some THEN builder.duration.val ELSE Rat(1, 1))
        /\ built.frequency = (IF builder.duration.some THEN builder.duration.val ELSE Rat(360, 1))

C7_Witness ==
    /\ bpc = "built"
    /\ builder.frequency.some /\ builder.duration.some
    /\ builder.frequency.val # builder.duration.val
    /\ built.frequency = builder.duration.val

\* C3: on the 8 x 12 x 4 grid the path function is injective: two cells have
\* the same file path only if they are the same cell, so the 384 cells have
\* 384 distinct file paths.
C3_PathInjective ==
    ppc = "done" =>
        /\ (ppath1 = ppath2 <=> pcell1 = pcell2)
        /\ (pcell1 = <<0, 0, 1>> /\ pcell2 = <<0, 0, 1>>) =>
               Cardinality({FilePath(c[1], c[2], c[3]) : c \in GridCells}) = 8 * 12 * 4

C3_Witness == ppc = "done" /\ pcell1 # pcell2 /\ pcell1[2] = pcell2[1] /\ pcell1[1] = pcell2[2]

Finished(job) == wpc[job] \in {"done", "panicked"}
Running(job) == wpc[job] \in {"mkoctave", "mknote", "render", "write", "close"}
Degrees == 0..(NumDegrees - 1)
RenderCalls(job) == SelectSeq(wlog[job], LAMBDA e : e.op = "render")

\* C1: main returns Ok only when every worker has finished, and then every
\* file of the grid exists with all its frames (2 channels each) written and
\* its writer closed; no file is open.
C1_OkOnlyWhenAllWritten ==
    mainpc = "ok" =>
        /\ \A job \in Jobs : wpc[job] = "done"
        /\ \A job \in Jobs, d \in Degrees, i \in 1..NumLengths :
               LET path == FilePath(job, d, lengths[i])
               IN /\ path \in DOMAIN files
                  /\ files[path].closed
                  /\ files[path].frames = (120 * FRAME_RATE * lengths[i]) \div 60
                  /\ files[path].samples = CHANNELS * files[path].frames
        /\ \A path \in DOMAIN files : files[path].closed
        /\ Cardinality(DOMAIN files) = NumJobs * NumDegrees * NumLengths

C1_Witness == mainpc = "ok" /\ \A job \in Jobs : Len(RenderCalls(job)) = NumDegrees * NumLengths

\* C2 (as stated): the process does not return or terminate before every
\* worker has finished, whatever fails.
C2_ExitOnlyAfterAllFinished ==
    mainpc \in {"ok", "panic"} => \A job \in Jobs : Finished(job)

\* The next call of a running worker succeeds unless it fails for a reason
\* outside the program.
CanGoOn(job) ==
    CASE wpc[job] = "mkoctave" -> CreateDirResult(OctaveDir(job), FALSE) = "ok"
      [] wpc[job] = "mknote" -> CreateDirResult(NoteDir(job, AbsNote(job)), FALSE) = "ok"
      [] wpc[job] = "render" -> CreateFileResult(CurPath(job), FALSE) = "ok"
      [] wpc[job] = "write" -> CurPath(job) \in DOMAIN files /\ ~files[CurPath(job)].closed
      [] wpc[job] = "close" -> CurPath(job) \in DOMAIN files /\ ~files[CurPath(job)].closed
      [] OTHER -> FALSE

\* C2 (amended): main returns Ok only after every worker has finished without
\* failure; main panics only in the join of a panicked worker, after joining
\* every worker spawned before it, and that ends the process whatever the
\* later workers are doing; while the process lives, the next call of a
\* running worker is never made to fail by what happened to another worker.
C2_JoinInSpawnOrder ==
    /\ mainpc = "ok" => \A job \in Jobs : wpc[job] = "done"
    /\ mainpc = "panic" =>
           /\ wpc[mi] = "panicked"
           /\ \A job \in Jobs : job < mi => wpc[job] = "done"
    /\ \A job \in Jobs : (Alive /\ Running(job)) => CanGoOn(job)

C2_Witness ==
    /\ mainpc = "panic"
    /\ \E job \in Jobs : Running(job) /\ Len(RenderCalls(job)) < NumDegrees * NumLengths

OctaveNames == <<"o[0]", "o[1]", "o[2]", "o[3]", "o[4]", "o[5]", "o[6]", "o[7]">>
TouchedBy(job) == {wlog[job][i].path : i \in 1..Len(wlog[job])}
LastCall(job) == wlog[job][Len(wlog[job])]

\* C8: every path a worker creates or writes lies under its own directory
\* out/o[job], no path is touched by two workers, and no call of a worker
\* fails for the state another worker left the tree in. (Stated of each call
\* when it is made: the latest entry of the worker's log.)
C8_DisjointNamespaces ==
    \A job \in Jobs : Len(wlog[job]) > 0 =>
        \E e \in {LastCall(job)} :
           /\ Len(e.path) >= 2 /\ e.path[1] = "out" /\ e.path[2] = OctaveNames[job + 1]
           /\ e.res \in {"ok", "io"}
           /\ \A other \in Jobs \ {job} : e.path \notin TouchedBy(other)

C8_Witness ==
    \A job \in Jobs : wpc[job] = "done" /\ Cardinality(TouchedBy(job)) > 2

\* C9: a worker runs only once the output root exists, and every file a
\* worker starts and every first sample it writes comes after the successful
\* creation of its octave directory (its first call) and then of the note
\* directory of the file. (Stated of each call when it is made.)
C9_DirsBeforeSamples ==
    \A job \in Jobs :
        /\ wpc[job] # "unspawned" => RootDir \in dirs
        /\ Len(wlog[job]) > 0 =>
               \E e \in {LastCall(job)} :
                   e.op \in {"render", "write"} =>
                       /\ wlog[job][1] = [op |-> "create_dir", res |-> "ok",
                                          path |-> <<"out", OctaveNames[job + 1]>>]
                       /\ \E b \in 2..(Len(wlog[job]) - 1) :
                              wlog[job][b] = [op |-> "create_dir", res |-> "ok",
                                              path |-> Parent(e.path)]

C9_Witness ==
    \E job \in Jobs :
        /\ Len(wlog[job]) > 0
        /\ LastCall(job).op = "write" /\ LastCall(job).res = "ok"
        /\ LastCall(job).path[3] = "n[1]"

ExpectedFrequency(note) ==
    F64Mul(F64Mul(Rat(440, 1), Rations[(note % 12) + 1]), Powi2(note \div 12))

====
